---- MODULE Spec2Model ----
(***************************************************************************)
(* Model of the slide-explanation pipeline of final-project-bezJac:        *)
(*   GptSlideExpander.generate_presentation_main_topic  (topic resolver)   *)
(*   GptSlideExpander.generate_explanation_for_slide    (slide explainer)  *)
(*   GptSlideExpander.generate_explanation_for_slide_with_retry            *)
(*   GptSlideExpander.process_individual_slide_explanation_safely          *)
(*   GptSlideExpander.generate_explanation_for_presentation (coordinator)  *)
(*   GptSlideExpander.process_file and cli.main          (the two runners) *)
(*                                                                         *)
(* Strings that the code inspects (slide text, presentation text) are      *)
(* tuples of one-character strings.  The remote completion service is the  *)
(* environment: each call either returns a completion or raises a          *)
(* transient error of the openai package; the k-th call of a run returns   *)
(* the completion numbered k, so that completions can be told apart.       *)
(***************************************************************************)
EXTENDS Integers, Sequences, FiniteSets, TLC

\* ------------------------------------------------------------------ bounds
MaxSlides == 3     \* slides of an input presentation
MaxKey == 4        \* largest key of an input slide mapping
MaxRetry == 3      \* largest max_retry handed to an entry point
MaxSlidesTwice == 2   \* slides per run when one object is used twice
MaxDeckSlides == 2    \* slides of a deck handed to the parser
MaxUploads == 2       \* files accepted by the upload endpoint

\* ------------------------------------------------------- program constants
InitialWaitTime == 4      \* wait_time = 4
WaitTimeStep == 1         \* wait_time += 1
RunnerMaxRetry == 3       \* max_retry=3 in process_file, max_retry = 3 in cli

\* ------------------------------------------------------------------ inputs
\* Slide texts handed to the model: empty, one space, two spaces, and two
\* different texts with visible characters.
SlideTexts ==
    { <<>>, <<" ">>, <<" ", " ">>, <<"I">>, <<"C", " ">> }

WhitespaceChars == {" ", "\t", "\n", "\r"}

\* str.isspace() or empty: no character of the text is visible
IsWhitespaceOnly(text) == \A i \in DOMAIN text : text[i] \in WhitespaceChars

KeyLists(n) ==
    { ks \in [1..n -> 1..MaxKey] : \A i \in 1..(n - 1) : ks[i] < ks[i + 1] }

\* A Dict[int, str] in insertion order: a sequence of (key, text) items.
DictsOfSize(n) ==
    { [i \in 1..n |-> [key |-> ks[i], text |-> ts[i]]] :
        ks \in KeyLists(n), ts \in [1..n -> SlideTexts] }

InputDicts == UNION { DictsOfSize(n) : n \in 0..MaxSlides }

\* The dictionary PPTXParser.extract_text_from_presentation builds: keys are
\* slide_number + 1 for slide_number = 0 .. n-1.
ParsedDicts ==
    UNION { { [i \in 1..n |-> [key |-> i, text |-> ts[i]]] :
                ts \in [1..n -> SlideTexts] } : n \in 0..MaxSlides }

\* Inputs of the runs of one object used twice: keys 1..n, two slide texts
TwiceDicts ==
    UNION { { [i \in 1..n |-> [key |-> i, text |-> ts[i]]] :
                ts \in [1..n -> {<<>>, <<"I">>}] } : n \in 0..MaxSlidesTwice }

Keys(dict) == { dict[i].key : i \in DOMAIN dict }

\* dict[key] of a dictionary held as a sequence of items
Lookup(dict, k) == (CHOOSE i \in DOMAIN dict : dict[i].key = k)

RECURSIVE JoinWithSpace(_)
\* ''.join([value + ' ' for value in dict.values()])
JoinWithSpace(dict) ==
    IF dict = <<>> THEN <<>>
    ELSE Head(dict).text \o <<" ">> \o JoinWithSpace(Tail(dict))

get_presentation_raw_text(dict) == JoinWithSpace(dict)

\* ------------------------------------------------------------------ parser
\* Characters of slide texts, one string per character: U+00A9 COPYRIGHT SIGN
\* and U+00C2 LATIN CAPITAL LETTER A WITH CIRCUMFLEX have names here.
CopyrightSign == "(c)"
ACircumflex == "A^"

\* The literal of extract_text_from_presentation's replace call: the bytes
\* C3 82 C2 A9 of the UTF-8 source file, the two characters U+00C2 U+00A9.
ReplacedLiteral == <<ACircumflex, CopyrightSign>>

\* python-pptx objects: a run has text; a paragraph has runs; a shape has a
\* text_frame with paragraphs or (a picture) none; a slide has shapes.
Run(text) == [text |-> text]
Paragraph(runs) == [runs |-> runs]
TextShape(paragraphs) == [has_text_frame |-> TRUE, paragraphs |-> paragraphs]
Picture == [has_text_frame |-> FALSE, paragraphs |-> <<>>]
Slide(shapes) == [shapes |-> shapes]

OneRunSlide(text) == Slide(<< TextShape(<< Paragraph(<< Run(text) >>) >>) >>)

DeckSlides ==
    { Slide(<<>>),
      Slide(<< Picture >>),
      OneRunSlide(<<>>),
      OneRunSlide(<<"T">>),
      OneRunSlide(<<"T", CopyrightSign>>),
      OneRunSlide(<<"T", ACircumflex, CopyrightSign>>),
      Slide(<< Picture,
               TextShape(<< Paragraph(<< Run(<<ACircumflex>>),
                                         Run(<<CopyrightSign>>) >>),
                            Paragraph(<<>>) >>) >>) }

Decks == UNION { [1..n -> DeckSlides] : n \in 0..MaxDeckSlides }

RECURSIVE extract_text_from_paragraph_runs(_)
extract_text_from_paragraph_runs(runs) ==
    IF runs = <<>> THEN <<>>
    ELSE Head(runs).text \o <<" ">>
            \o extract_text_from_paragraph_runs(Tail(runs))

\* ''.join([run.text + ' ' for run in paragraph.runs])
extract_text_from_paragraph(paragraph) ==
    extract_text_from_paragraph_runs(paragraph.runs)

RECURSIVE JoinParagraphs(_)
JoinParagraphs(paragraphs) ==
    IF paragraphs = <<>> THEN <<>>
    ELSE extract_text_from_paragraph(Head(paragraphs))
            \o JoinParagraphs(Tail(paragraphs))

\* ''.join([... for paragraph in shape.text_frame.paragraphs])
\*     if hasattr(shape, 'text_frame') else ''
extract_text_from_shape(shape) ==
    IF shape.has_text_frame THEN JoinParagraphs(shape.paragraphs) ELSE <<>>

RECURSIVE JoinShapes(_)
JoinShapes(shapes) ==
    IF shapes = <<>> THEN <<>>
    ELSE extract_text_from_shape(Head(shapes)) \o JoinShapes(Tail(shapes))

\* ''.join([PPTXParser.extract_text_from_shape(shape) for shape in ...])
extract_text_from_slide(current_slide) == JoinShapes(current_slide.shapes)

StartsWith(text, old) ==
    /\ Len(old) <= Len(text)
    /\ SubSeq(text, 1, Len(old)) = old

RECURSIVE Replace(_, _)
\* str.replace(old, ''): the occurrences of old, found left to right without
\* overlap, are taken out.
Replace(text, old) ==
    IF text = <<>> THEN <<>>
    ELSE IF StartsWith(text, old)
         THEN Replace(SubSeq(text, Len(old) + 1, Len(text)), old)
         ELSE <<Head(text)>> \o Replace(Tail(text), old)

\* parsing_results_dict[k] = text on a dictionary held as a sequence of items
ParsedSet(dict, k, text) ==
    IF k \in { dict[p].key : p \in DOMAIN dict }
    THEN [p \in DOMAIN dict |->
            IF dict[p].key = k THEN [key |-> k, text |-> text] ELSE dict[p]]
    ELSE Append(dict, [key |-> k, text |-> text])

\* --------------------------------------------------------------- file names
\* text contains sub: Python's `sub in text` on strings
Contains(text, sub) ==
    \E i \in 0..(Len(text) - Len(sub)) : SubSeq(text, i + 1, i + Len(sub)) = sub

Dots(text) == { i \in DOMAIN text : text[i] = "." }

\* os.path.splitext of a name without directory: the extension starts at the
\* last dot, unless only dots precede it. Gives <<root, ext>>.
SplitExt(text) ==
    IF Dots(text) = {} THEN <<text, <<>>>>
    ELSE LET last == CHOOSE i \in Dots(text) : \A j \in Dots(text) : j <= i
         IN  IF \A j \in 1..(last - 1) : text[j] = "."
             THEN <<text, <<>>>>
             ELSE <<SubSeq(text, 1, last - 1), SubSeq(text, last, Len(text))>>

\* text.split(sep, 1) for a one-character sep: <<before, after>> of the
\* first sep, or <<text>> when there is none
SplitOnce(text, sep) ==
    LET at == { i \in DOMAIN text : text[i] = sep }
    IN  IF at = {} THEN <<text>>
        ELSE LET first == CHOOSE i \in at : \A j \in at : i <= j
             IN  <<SubSeq(text, 1, first - 1),
                   SubSeq(text, first + 1, Len(text))>>

\* str(uuid.uuid4()) values, as many as there can be uploads
UidList == << <<"a", "1">>, <<"b", "2">>, <<"c", "3">>, <<"d", "4">> >>
Uids == { UidList[i] : i \in 1..MaxUploads }

\* datetime.now().strftime("%Y%m%d%H%M%S")
Timestamps == { <<"0", "7">> }

\* Slides of an uploaded deck: none, or one
UploadedDeckSizes == {0, 1}

\* file.filename of an upload request; empty when no file was chosen
OriginalFilenames == { <<>>, <<"d", ".", "p">> }

\* The <uid> of GET /status/<uid>: any text of the client, among them the
\* identifiers handed out and parts of a uid, of a timestamp and of a name
Queries == Uids \cup { <<"1">>, <<"0">>, <<"d">> }

\* f"{uid}_{timestamp}_{file_name}_{file_ext}"
NewFilename(uid, timestamp, original_filename) ==
    uid \o <<"_">> \o timestamp \o <<"_">> \o SplitExt(original_filename)[1]
        \o <<"_">> \o SplitExt(original_filename)[2]

\* The extension ".json"
JsonExt == <<".", "j">>

\* os.path.splitext(file_name)[0] + ".json" (save_explanation_json),
\* f"{filename}.json" with filename = os.path.splitext(basename)[0] (status)
OutputFilename(file_name) == SplitExt(file_name)[1] \o JsonExt

\* ------------------------------------------------------------------ values
GivenTopic == [src |-> "argument", id |-> 0]
RemoteTopic(k) == [src |-> "remote", id |-> k]
NoTopic == [src |-> "none", id |-> 0]

\* gpt_response['choices'][0]['message']['content'] of the k-th remote call
Completion(k) == [kind |-> "completion", id |-> k, index |-> 0, msg |-> "none"]
\* 'No text in the slide - unable to generate explanation'
NoTextSentinel == [kind |-> "no_text", id |-> 0, index |-> 0, msg |-> "none"]
\* f"ERROR - explanation generation for slide {slide_index} failed: {str(e)}"
ErrorSentinel(slide_index, e) ==
    [kind |-> "error", id |-> 0, index |-> slide_index, msg |-> e]
NoValue == [kind |-> "none", id |-> 0, index |-> 0, msg |-> "none"]

\* ------------------------------------------------------------- exceptions
\* The transient failure the remote call raises: an exception class of the
\* module openai.error (RateLimitError, Timeout, APIError, ...).
TransientError == "OpenAIError"

\* What one remote call can do: return a completion, raise a transient
\* error, or hand back a response without the fields that
\* gpt_response['choices'][0]['message']['content'] reads, which raises
\* KeyError inside the same try block.
Replies == {"ok", TransientError, "KeyError"}

\* The handler the docstrings assume: the base exception class of the
\* openai package (openai.error.OpenAIError).
OpenaiErrorAsClass == [kind |-> "class", name |-> "OpenAIError"]

\* What `openai.error` in `except openai.error as e` evaluates to: the module
\* openai/error.py of the package that provides openai.ChatCompletion, not
\* an exception class.
OpenaiError == [kind |-> "module", name |-> "openai.error"]

\* isinstance(exc, handler) for the exception classes that occur here
IsInstance(exc, name) ==
    \/ name = exc
    \/ name = "Exception"

\* Python's matching of a raised exception against `except <handler>`: a
\* handler that is not a class inheriting from BaseException makes the match
\* itself raise TypeError ("catching classes that do not inherit from
\* BaseException is not allowed"), which replaces the exception in flight.
Except(handler, exc) ==
    IF handler.kind # "class" THEN [caught |-> FALSE, raised |-> "TypeError"]
    ELSE IF IsInstance(exc, handler.name)
         THEN [caught |-> TRUE, raised |-> "none"]
         ELSE [caught |-> FALSE, raised |-> exc]

Returned(v) == [kind |-> "return", value |-> v, exc |-> "none"]
Raised(e) == [kind |-> "raise", value |-> NoValue, exc |-> e]
Running == [kind |-> "running", value |-> NoValue, exc |-> "none"]

TopicReturned(t) == [kind |-> "return", value |-> t, exc |-> "none"]
TopicRaised(e) == [kind |-> "raise", value |-> NoTopic, exc |-> e]
TopicRunning == [kind |-> "running", value |-> NoTopic, exc |-> "none"]

VARIABLES
    entry,                 \* the entry point this run called
    remote_calls,          \* log of openai.ChatCompletion.create calls
    sleeps,                \* log of time.sleep(wait_time) calls
    \* frame of generate_presentation_main_topic
    presentation_text, topic_max_retry, topic_pc, retry_count, wait_time,
    topic_outcome,
    \* frame of generate_explanation_for_presentation
    parsed_presentation, presentation_topic, max_retry, coord_pc, tasks,
    coord_outcome,
    \* the runner (process_file or cli.main)
    parsing_results_dict, cli_topic, run_pc, expanded_slide_explanations,
    processed_files, output_json,
    \* PPTXParser
    presentation,          \* self.presentation.slides
    slide_number,          \* slides the loop of the parser has been through
    \* web service and explainer loop
    uploads,               \* files of the uploads folder: [name, slides]
    outputs,               \* files of the outputs folder: [name, file]
    explainer,             \* run_explainer: position, files to process,
                           \* result, log of process_file calls and of
                           \* output files opened for writing
    poll,                  \* a status request in progress
    response,              \* the last HTTP response
    \* what the event loop and the result dictionary have seen
    in_flight,             \* tasks whose remote request has no answer yet
    overlapped,            \* a request was issued while another was in flight
    writes                 \* log of result[key] = value assignments

topicVars == <<presentation_text, topic_max_retry, topic_pc, retry_count,
               wait_time, topic_outcome>>
coordVars == <<parsed_presentation, presentation_topic, max_retry, coord_pc,
               tasks, coord_outcome>>
runVars == <<parsing_results_dict, cli_topic, run_pc,
             expanded_slide_explanations, processed_files, output_json>>
histVars == <<in_flight, overlapped, writes>>
parseVars == <<presentation, slide_number>>
webVars == <<uploads, outputs, explainer, poll, response>>
vars == <<entry, remote_calls, sleeps, topicVars, coordVars, runVars,
          histVars, parseVars, webVars>>

\* A remote call as logged: who issued it (0: the topic resolver, i: the
\* task created for the i-th item), the text of its prompt, and its result.
\* The coordinator call in progress: the second one once the same object
\* has been handed its second presentation
CurrentRun == IF run_pc = "run2" THEN 2 ELSE 1

Call(unit, text, topic, reply) ==
    [unit |-> unit, text |-> text, topic |-> topic, ok |-> reply = "ok",
     exc |-> IF reply = "ok" THEN "none" ELSE reply,
     run |-> CurrentRun,
     id |-> Len(remote_calls) + 1]

CallsOf(unit) ==
    { c \in DOMAIN remote_calls :
        remote_calls[c].unit = unit /\ remote_calls[c].run = CurrentRun }

EmptyDict == <<>>

\* A JSON file of the output folder: absent; created by open(path, "w") and
\* not yet holding the whole text (empty, or a prefix of it); or written and
\* closed. content is the JSON document of a complete file.
AbsentFile == [exists |-> FALSE, complete |-> FALSE, content |-> EmptyDict]
OpenedFile == [exists |-> TRUE, complete |-> FALSE, content |-> EmptyDict]
WrittenFile(document) ==
    [exists |-> TRUE, complete |-> TRUE, content |-> document]

\* json.dump of a dictionary: a JSON object, whose keys are strings, so an
\* int key k is written as the string of its digits.
JsonDump(dict) ==
    [p \in DOMAIN dict |->
        [key |-> ToString(dict[p].key), value |-> dict[p].value]]

\* json.load of a file: the object of a complete document (its keys remain
\* strings); an empty or cut-off text raises json.JSONDecodeError.
JsonLoad(file) ==
    IF file.complete
    THEN [kind |-> "return", value |-> file.content, exc |-> "none"]
    ELSE [kind |-> "raise", value |-> EmptyDict, exc |-> "JSONDecodeError"]

TopicIdle ==
    /\ presentation_text = <<>>
    /\ topic_max_retry = 0
    /\ topic_pc = "idle"
    /\ retry_count = 0
    /\ wait_time = 0
    /\ topic_outcome = TopicRunning

CoordIdle ==
    /\ parsed_presentation = <<>>
    /\ presentation_topic = NoTopic
    /\ max_retry = 0
    /\ coord_pc = "idle"
    /\ tasks = <<>>
    /\ coord_outcome = [kind |-> "running", value |-> EmptyDict, exc |-> "none"]

ParseIdle == presentation = <<>> /\ slide_number = 0

NoResponse ==
    [code |-> 0, status |-> "none", filename |-> <<>>, timestamp |-> <<>>,
     explanation |-> "none", uid |-> <<>>]

NoPoll == [pc |-> "idle", uid |-> <<>>, file |-> <<>>]

ExplainerStarts(pc) ==
    [pc |-> pc, files_to_process |-> <<>>, result |-> EmptyDict,
     started |-> <<>>, written |-> <<>>]

ExplainerAt(pc, files, result) ==
    [explainer EXCEPT !.pc = pc, !.files_to_process = files,
                      !.result = result]

WebIdle ==
    /\ uploads = <<>>
    /\ outputs = <<>>
    /\ explainer = ExplainerStarts("none")
    /\ poll = NoPoll
    /\ response = NoResponse

RunIdle ==
    /\ parsing_results_dict = EmptyDict
    /\ cli_topic = NoTopic
    /\ run_pc = "none"
    /\ expanded_slide_explanations = EmptyDict
    /\ processed_files = {}
    /\ output_json = AbsentFile

\* ------------------------------------------- generate_presentation_main_topic
\* A guard that lets every text through
TopicTextAlwaysValid(text) == TRUE

\* `if presentation_text:`
TopicTextIsValid(text) == text # <<>>

\* `while retry_count < max_retry:`
TopicLoopContinues(count, limit) == count < limit

\* line 52: the guard on the presentation text; line 53-54 or line 82
TopicCheck ==
    /\ topic_pc = "check"
    /\ IF TopicTextIsValid(presentation_text)
       THEN /\ retry_count' = 0
            /\ wait_time' = InitialWaitTime
            /\ topic_pc' = "loop"
            /\ UNCHANGED topic_outcome
       ELSE /\ topic_pc' = "done"
            /\ topic_outcome' = TopicRaised("ValueError")
            /\ UNCHANGED <<retry_count, wait_time>>
    /\ UNCHANGED <<entry, remote_calls, sleeps, presentation_text,
                   topic_max_retry, coordVars, runVars>>
    /\ UNCHANGED histVars
    /\ UNCHANGED parseVars
    /\ UNCHANGED webVars

\* One iteration of the while loop: the remote call, its except clause and,
\* when the except clause caught the failure, the increment, the sleep and
\* the longer wait.
TopicAttempt ==
    /\ topic_pc = "loop"
    /\ TopicLoopContinues(retry_count, topic_max_retry)
    /\ \E reply \in Replies :
        LET call == Call(0, presentation_text, NoTopic, reply)
            match == Except(OpenaiError, reply)
        IN  /\ remote_calls' = Append(remote_calls, call)
            /\ IF call.ok
               THEN /\ topic_outcome' = TopicReturned(RemoteTopic(call.id))
                    /\ topic_pc' = "done"
                    /\ UNCHANGED <<retry_count, wait_time, sleeps>>
               ELSE IF match.caught
               THEN /\ retry_count' = retry_count + 1
                    /\ sleeps' = Append(sleeps, wait_time)
                    /\ wait_time' = wait_time + WaitTimeStep
                    /\ UNCHANGED <<topic_outcome, topic_pc>>
               ELSE /\ topic_outcome' = TopicRaised(match.raised)
                    /\ topic_pc' = "done"
                    /\ UNCHANGED <<retry_count, wait_time, sleeps>>
    /\ UNCHANGED <<entry, presentation_text, topic_max_retry, coordVars,
                   runVars>>
    /\ UNCHANGED histVars
    /\ UNCHANGED parseVars
    /\ UNCHANGED webVars

\* line 79: the loop condition is false
TopicExhausted ==
    /\ topic_pc = "loop"
    /\ ~TopicLoopContinues(retry_count, topic_max_retry)
    /\ topic_outcome' = TopicRaised("RuntimeError")
    /\ topic_pc' = "done"
    /\ UNCHANGED <<entry, remote_calls, sleeps, presentation_text,
                   topic_max_retry, retry_count, wait_time, coordVars,
                   runVars>>
    /\ UNCHANGED histVars
    /\ UNCHANGED parseVars
    /\ UNCHANGED webVars

\* --------------------------------------------- generate_explanation_for_slide
\* The guard without its second conjunct: `if slide_text:`
SlideHasTextUnlessEmpty(slide_text) == slide_text # <<>>

\* `if slide_text and slide_text != ' ':`
SlideHasText(slide_text) == slide_text # <<>> /\ slide_text # <<" ">>

\* ----------------------------- process_individual_slide_explanation_safely
\* The try/except around generate_explanation_for_slide_with_retry, applied
\* to an exception that left the retry loop.
SafelyOutcome(slide_index, exc) ==
    LET match == Except(OpenaiError, exc)
    IN  IF match.caught THEN Returned(ErrorSentinel(slide_index, exc))
        ELSE Raised(match.raised)

\* ------------------------------------ generate_explanation_for_presentation
\* asyncio.create_task(process_individual_slide_explanation_safely(slide,
\*   presentation_topic, max_retry, index + 1))
\*   for index, slide in enumerate(parsed_presentation.values())
NewTask(index, slide) ==
    [slide_text |-> slide, slide_index |-> index + 1, pc |-> "pending",
     tries |-> 0, retry_exc |-> "none", outcome |-> Running]

CreateTasks(dict) == [p \in 1..Len(dict) |-> NewTask(p - 1, dict[p].text)]

\* An assembly that numbers the results from the last one
EnumerateResultsReversed(results) ==
    [p \in 1..Len(results) |->
        [key |-> p, value |-> results[Len(results) + 1 - p]]]

\* A loop that stores every result under one key: result[1] = explanation
EnumerateResultsUnderOneKey(results) ==
    [i \in DOMAIN results |-> [key |-> 1, value |-> results[i]]]

\* for slide_index, explanation in enumerate(results, start=1):
\*     generated_explanation_dictionary[slide_index] = explanation
EnumerateResults(results) ==
    [p \in 1..Len(results) |-> [key |-> p, value |-> results[p]]]

\* dict[k] = v on a dictionary held as a sequence of items
DictSet(dict, k, v) ==
    IF k \in Keys(dict)
    THEN [p \in DOMAIN dict |->
            IF dict[p].key = k THEN [key |-> k, value |-> v] ELSE dict[p]]
    ELSE Append(dict, [key |-> k, value |-> v])

RECURSIVE DictUpdate(_, _)
DictUpdate(dict, items) ==
    IF items = <<>> THEN dict
    ELSE DictUpdate(DictSet(dict, Head(items).key, Head(items).value),
                    Tail(items))

TaskDone(t) == t.pc = "done"

\* The event loop runs the ready tasks in the order create_task queued them;
\* no task ever suspends (openai.ChatCompletion.create is a blocking call
\* and every await is on a coroutine that never yields), so a task runs to
\* its end before the next one starts.  (First, an event loop that runs the
\* first task only.)
IsRunnableFirstOnly(i) ==
    /\ coord_pc = "gather"
    /\ i = 1
    /\ i \in DOMAIN tasks
    /\ tasks[i].pc # "done"

IsRunnable(i) ==
    /\ coord_pc = "gather"
    /\ i \in DOMAIN tasks
    /\ ~TaskDone(tasks[i])
    /\ \A j \in 1..(i - 1) : TaskDone(tasks[j])

\* `for _ in range(max_try):`
RetryLoopAtLeastOnce(tries, max_try) == tries = 0 \/ tries < max_try

RetryLoopContinues(tries, max_try) == tries < max_try

\* lines 98-102: the tasks are created; line 104: the coordinator awaits
ScheduleTasks ==
    /\ coord_pc = "schedule"
    /\ tasks' = CreateTasks(parsed_presentation)
    /\ coord_pc' = "gather"
    /\ UNCHANGED <<entry, remote_calls, sleeps, topicVars,
                   parsed_presentation, presentation_topic, max_retry,
                   coord_outcome, runVars>>
    /\ UNCHANGED histVars
    /\ UNCHANGED parseVars
    /\ UNCHANGED webVars

\* Lines 160-163 in task i: generate_explanation_for_slide found text and
\* sends the request of openai.ChatCompletion.create, a call that blocks the
\* thread of the event loop until the answer is there.
TaskRequest(i) ==
    /\ IsRunnable(i)
    /\ RetryLoopContinues(tasks[i].tries, max_retry)
    /\ SlideHasText(tasks[i].slide_text)
    /\ i \notin in_flight
    /\ in_flight' = in_flight \cup {i}
    /\ overlapped' = (overlapped \/ in_flight # {})
    /\ tasks' = [tasks EXCEPT ![i].pc = "attempting"]
    /\ UNCHANGED <<entry, remote_calls, sleeps, topicVars, parsed_presentation,
                   presentation_topic, max_retry, coord_pc, coord_outcome,
                   runVars, writes>>
    /\ UNCHANGED parseVars
    /\ UNCHANGED webVars

\* One iteration of the for loop of generate_explanation_for_slide_with_retry
\* inside task i: generate_explanation_for_slide (for a slide with text: the
\* answer to its request), then the loop's except clause, then (for what
\* leaves the loop) the except clause of
\* process_individual_slide_explanation_safely.
TaskAttempt(i) ==
    /\ IsRunnable(i)
    /\ RetryLoopContinues(tasks[i].tries, max_retry)
    /\ SlideHasText(tasks[i].slide_text) => i \in in_flight
    /\ in_flight' = in_flight \ {i}
    /\ UNCHANGED <<overlapped, writes>>
    /\ LET t == tasks[i] IN
       IF SlideHasText(t.slide_text)
       THEN \E reply \in Replies :
            LET call == Call(i, t.slide_text, presentation_topic, reply)
                match == Except(OpenaiError, reply)
                ok == call.ok
            IN  /\ remote_calls' = Append(remote_calls, call)
                /\ tasks' = [tasks EXCEPT ![i] =
                     IF ok
                     THEN [t EXCEPT !.pc = "done", !.tries = t.tries + 1,
                                    !.outcome = Returned(Completion(call.id))]
                     ELSE IF match.caught
                     THEN [t EXCEPT !.pc = "attempting",
                                    !.tries = t.tries + 1]
                     ELSE [t EXCEPT !.pc = "done", !.tries = t.tries + 1,
                                    !.retry_exc = match.raised,
                                    !.outcome =
                                        SafelyOutcome(t.slide_index,
                                                      match.raised)]]
       ELSE /\ tasks' = [tasks EXCEPT ![i] =
                     [t EXCEPT !.pc = "done", !.tries = t.tries + 1,
                               !.outcome = Returned(NoTextSentinel)]]
            /\ UNCHANGED remote_calls
    /\ UNCHANGED <<entry, sleeps, topicVars, parsed_presentation,
                   presentation_topic, max_retry, coord_pc, coord_outcome,
                   runVars>>
    /\ UNCHANGED parseVars
    /\ UNCHANGED webVars

\* line 131: range(max_try) is used up; the Exception meets the except clause
\* of process_individual_slide_explanation_safely.
TaskExhausted(i) ==
    /\ IsRunnable(i)
    /\ ~RetryLoopContinues(tasks[i].tries, max_retry)
    /\ tasks' = [tasks EXCEPT ![i] =
                    [@ EXCEPT !.pc = "done",
                              !.retry_exc = "Exception",
                              !.outcome = SafelyOutcome(@.slide_index,
                                                        "Exception")]]
    /\ UNCHANGED <<entry, remote_calls, sleeps, topicVars,
                   parsed_presentation, presentation_topic, max_retry,
                   coord_pc, coord_outcome, runVars>>
    /\ UNCHANGED histVars
    /\ UNCHANGED parseVars
    /\ UNCHANGED webVars

\* asyncio.wait(tasks, return_when=FIRST_COMPLETED) in place of gather: the
\* coordinator resumes as soon as one task has finished.
FirstTaskDone == tasks = <<>> \/ \E i \in DOMAIN tasks : TaskDone(tasks[i])

AllTasksDone == \A i \in DOMAIN tasks : TaskDone(tasks[i])

RaisedTasks == { i \in DOMAIN tasks : tasks[i].outcome.kind = "raise" }

FirstRaised == CHOOSE i \in RaisedTasks : \A j \in RaisedTasks : i <= j

GatherResults == [i \in DOMAIN tasks |-> tasks[i].outcome.value]

\* The coordinator of the draft src/gpt_slide_expander.py, an instance method
\* that stores into self.expanded_slide_explanations; cli.main uses it.
InstanceVariant == entry \in {"cli", "twice"}

\* lines 104-109: asyncio.gather hands back the results in task order, or
\* raises the exception of the first task that failed; the callbacks that
\* wake the coordinator are queued behind the tasks that are still ready, so
\* it resumes when all of them have run.  The draft of src/gpt_slide_expander.py
\* (used by cli.main) stores the items in self.expanded_slide_explanations
\* and returns None.
CoordinatorResume ==
    /\ coord_pc = "gather"
    /\ AllTasksDone
    /\ coord_pc' = "done"
    /\ IF RaisedTasks # {}
       THEN /\ coord_outcome' = [kind |-> "raise", value |-> EmptyDict,
                                 exc |-> tasks[FirstRaised].outcome.exc]
            /\ UNCHANGED <<expanded_slide_explanations, writes>>
       ELSE IF InstanceVariant
       THEN /\ coord_outcome' = [kind |-> "return", value |-> EmptyDict,
                                 exc |-> "none"]
            /\ expanded_slide_explanations' =
                   DictUpdate(expanded_slide_explanations,
                              EnumerateResults(GatherResults))
            /\ writes' = writes \o EnumerateResults(GatherResults)
       ELSE /\ coord_outcome' = [kind |-> "return",
                                 value |-> DictUpdate(EmptyDict,
                                              EnumerateResults(GatherResults)),
                                 exc |-> "none"]
            /\ writes' = writes \o EnumerateResults(GatherResults)
            /\ UNCHANGED expanded_slide_explanations
    /\ UNCHANGED <<in_flight, overlapped>>
    /\ UNCHANGED <<entry, remote_calls, sleeps, topicVars,
                   parsed_presentation, presentation_topic, max_retry, tasks,
                   parsing_results_dict, cli_topic, run_pc, processed_files,
                   output_json>>
    /\ UNCHANGED parseVars
    /\ UNCHANGED webVars

\* ------------------------------------------------ process_file and cli.main
FileName == "deck.pptx"

\* The call of generate_explanation_for_presentation by a runner
CallCoordinator(topic) ==
    /\ parsed_presentation' = parsing_results_dict
    /\ presentation_topic' = topic
    /\ max_retry' = RunnerMaxRetry
    /\ coord_pc' = "schedule"
    /\ UNCHANGED <<tasks, coord_outcome>>

\* process_file lines 227-231, cli.main lines 51-60: the deck is parsed; the
\* topic is resolved, unless cli.main was given one (`if not
\* presentation_main_topic`).
RunnerStart ==
    /\ run_pc = "start"
    /\ IF entry = "cli" /\ cli_topic # NoTopic
       THEN /\ CallCoordinator(cli_topic)
            /\ run_pc' = "slides"
            /\ UNCHANGED topicVars
       ELSE /\ presentation_text' =
                   get_presentation_raw_text(parsing_results_dict)
            /\ topic_max_retry' = RunnerMaxRetry
            /\ topic_pc' = "check"
            /\ run_pc' = "topic"
            /\ UNCHANGED <<retry_count, wait_time, topic_outcome, coordVars>>
    /\ UNCHANGED <<entry, remote_calls, sleeps, parsing_results_dict,
                   cli_topic, expanded_slide_explanations, processed_files,
                   output_json>>
    /\ UNCHANGED histVars
    /\ UNCHANGED parseVars
    /\ UNCHANGED webVars

\* A runner that goes on to the slides whatever the topic resolver did
TopicSucceededOrFailed(outcome) == TRUE

\* The statements after the call of generate_presentation_main_topic run only
\* when it returned: neither runner has a try around the call.
TopicSucceeded(outcome) == outcome.kind = "return"

\* process_file lines 232-240, cli.main lines 62-64: the topic resolver
\* returned and the coordinator is called; an exception of the topic resolver
\* leaves the runner.
RunnerAfterTopic ==
    /\ run_pc = "topic"
    /\ topic_pc = "done"
    /\ IF TopicSucceeded(topic_outcome)
       THEN /\ CallCoordinator(topic_outcome.value)
            /\ processed_files' =
                   IF entry = "process_file"
                   THEN processed_files \cup {FileName}
                   ELSE processed_files
            /\ run_pc' = "slides"
       ELSE /\ run_pc' = "error"
            /\ UNCHANGED <<coordVars, processed_files>>
    /\ UNCHANGED <<entry, remote_calls, sleeps, topicVars,
                   parsing_results_dict, cli_topic,
                   expanded_slide_explanations, output_json>>
    /\ UNCHANGED histVars
    /\ UNCHANGED parseVars
    /\ UNCHANGED webVars

\* process_file line 242 (save_explanation_json), cli.main lines 66-68
\* (output_to_json): the coordinator returned and `with open(output_path,
\* "w") as file` creates the file, empty; an exception of the coordinator
\* leaves the runner.
RunnerAfterSlides ==
    /\ run_pc = "slides"
    /\ coord_pc = "done"
    /\ IF coord_outcome.kind = "return"
       THEN /\ output_json' = OpenedFile
            /\ run_pc' = "dump"
       ELSE /\ run_pc' = "error"
            /\ UNCHANGED output_json
    /\ UNCHANGED <<entry, remote_calls, sleeps, topicVars, coordVars,
                   parsing_results_dict, cli_topic,
                   expanded_slide_explanations, processed_files>>
    /\ UNCHANGED histVars
    /\ UNCHANGED parseVars
    /\ UNCHANGED webVars

\* json.dump(explanation_result, file, indent=4) and the end of the with
\* block: the text is in the file and the file is closed.
RunnerDump ==
    /\ run_pc = "dump"
    /\ output_json' = WrittenFile(JsonDump(IF InstanceVariant
                                           THEN expanded_slide_explanations
                                           ELSE coord_outcome.value))
    /\ run_pc' = "done"
    /\ UNCHANGED <<entry, remote_calls, sleeps, topicVars, coordVars,
                   parsing_results_dict, cli_topic,
                   expanded_slide_explanations, processed_files>>
    /\ UNCHANGED histVars
    /\ UNCHANGED parseVars
    /\ UNCHANGED webVars

\* The same GptSlideExpander object is handed a second presentation:
\* asyncio.run(slide_expander.generate_explanation_for_presentation(...)) once
\* more. A new coroutine starts with fresh locals; the attributes of the
\* object (self.expanded_slide_explanations, set only in __init__) are what
\* the first call left.
SecondRun ==
    /\ entry = "twice"
    /\ run_pc = "run1"
    /\ coord_pc = "done"
    /\ \E dict \in TwiceDicts : parsed_presentation' = dict
    /\ tasks' = <<>>
    /\ coord_pc' = "schedule"
    /\ coord_outcome' = [kind |-> "running", value |-> EmptyDict, exc |-> "none"]
    /\ run_pc' = "run2"
    /\ writes' = <<>>
    /\ UNCHANGED <<entry, remote_calls, sleeps, topicVars, presentation_topic,
                   max_retry, parsing_results_dict, cli_topic,
                   expanded_slide_explanations, processed_files, output_json,
                   in_flight, overlapped>>
    /\ UNCHANGED parseVars
    /\ UNCHANGED webVars

\* -------------------------------------------------------------- PPTXParser
\* One iteration of `for slide_number, slide in enumerate(...)` of
\* extract_text_from_presentation, lines 30-35.
ParseSlide ==
    /\ entry = "parse"
    /\ run_pc = "parsing"
    /\ slide_number < Len(presentation)
    /\ LET slide == presentation[slide_number + 1]
           slide_text == Replace(extract_text_from_slide(slide),
                                 ReplacedLiteral)
       IN  parsing_results_dict' =
               ParsedSet(parsing_results_dict, slide_number + 1,
                         IF slide_text # <<>> THEN slide_text ELSE <<>>)
    /\ slide_number' = slide_number + 1
    /\ UNCHANGED <<entry, remote_calls, sleeps, topicVars, coordVars,
                   cli_topic, run_pc, expanded_slide_explanations,
                   processed_files, output_json, histVars, presentation>>
    /\ UNCHANGED webVars

\* The loop of extract_text_from_presentation is through the slides
ParseDone ==
    /\ entry = "parse"
    /\ run_pc = "parsing"
    /\ slide_number = Len(presentation)
    /\ run_pc' = "parsed"
    /\ UNCHANGED <<entry, remote_calls, sleeps, topicVars, coordVars,
                   parsing_results_dict, cli_topic,
                   expanded_slide_explanations, processed_files, output_json,
                   histVars, parseVars>>
    /\ UNCHANGED webVars

\* ------------------------------------------------- web service and explainer
serviceFrame == <<entry, remote_calls, sleeps, topicVars, coordVars,
                  parsing_results_dict, cli_topic, run_pc,
                  expanded_slide_explanations, output_json, histVars,
                  parseVars>>

\* The file of the outputs folder with this name
OutputFile(name) ==
    IF \E p \in DOMAIN outputs : outputs[p].name = name
    THEN outputs[CHOOSE p \in DOMAIN outputs : outputs[p].name = name].file
    ELSE AbsentFile

\* open(path, "w") and the writes that follow, on the outputs folder
PutOutput(name, file) ==
    IF \E p \in DOMAIN outputs : outputs[p].name = name
    THEN [p \in DOMAIN outputs |->
            IF outputs[p].name = name THEN [name |-> name, file |-> file]
            ELSE outputs[p]]
    ELSE Append(outputs, [name |-> name, file |-> file])

\* The uid part of a stored name
UidOf(file_name) == SplitOnce(file_name, "_")[1]

\* The names of the uploads folder
UploadNames == { uploads[p].name : p \in DOMAIN uploads }

\* web_api.upload, lines 15-31: the file of the request, a deck of some
\* number of slides, is stored under its new name.
Upload ==
    /\ entry = "service"
    /\ Len(uploads) < MaxUploads
    /\ \E original_filename \in OriginalFilenames, timestamp \in Timestamps,
          slides \in UploadedDeckSizes,
          uid \in Uids \ { UidOf(name) : name \in UploadNames } :
          IF original_filename # <<>>
          THEN /\ uploads' = Append(uploads,
                       [name |-> NewFilename(uid, timestamp,
                                             original_filename),
                        slides |-> slides])
               /\ response' = [NoResponse EXCEPT !.code = 200, !.uid = uid]
          ELSE /\ response' = [NoResponse EXCEPT !.code = 400]
               /\ UNCHANGED uploads
    /\ UNCHANGED <<serviceFrame, processed_files, outputs, explainer, poll>>

\* `for file in files: if uid in file:` over the listing of the uploads
\* folder: the names that match. The break ends the scan of the folder at
\* the first match of the listing, whose order os.walk leaves open.
MatchingUploads(uid) == { name \in UploadNames : Contains(name, uid) }

\* basename.split('_', 1)[1].split('_', 1)[0]
TimestampOf(file_name) == SplitOnce(SplitOnce(file_name, "_")[2], "_")[1]

\* web_api.status, lines 34-64: the upload is looked for; without one the
\* answer is 404 'not found'; without an output file the answer is
\* 'pending'; with one the handler goes on to read it.
StatusLookup ==
    /\ entry = "service"
    /\ poll.pc = "idle"
    /\ \E uid \in Queries :
        IF MatchingUploads(uid) = {}
        THEN /\ response' = [NoResponse EXCEPT !.code = 404,
                                               !.status = "not found"]
             /\ poll' = [NoPoll EXCEPT !.uid = uid]
        ELSE \E file_path \in MatchingUploads(uid) :
             LET filename == SplitExt(file_path)[1]
                 output_exists == OutputFile(OutputFilename(file_path)).exists
             IN  IF output_exists
                 THEN /\ poll' = [pc |-> "load", uid |-> uid,
                                  file |-> file_path]
                      /\ UNCHANGED response
                 ELSE /\ response' =
                            [code |-> 200, status |-> "pending",
                             filename |-> filename,
                             timestamp |-> TimestampOf(file_path),
                             explanation |-> "null", uid |-> <<>>]
                      /\ poll' = [NoPoll EXCEPT !.uid = uid,
                                                !.file = file_path]
    /\ UNCHANGED <<serviceFrame, processed_files, uploads, outputs, explainer>>

\* web_api.status, lines 66-73: the output file is opened and parsed; an
\* exception of json.load is an HTTP 500 of the framework.
StatusLoad ==
    /\ entry = "service"
    /\ poll.pc = "load"
    /\ LET output_data == JsonLoad(OutputFile(OutputFilename(poll.file)))
       IN  response' =
             IF output_data.kind = "return"
             THEN [code |-> 200, status |-> "done",
                   filename |-> SplitExt(poll.file)[1],
                   timestamp |-> TimestampOf(poll.file),
                   explanation |-> output_data.value, uid |-> <<>>]
             ELSE [NoResponse EXCEPT !.code = 500]
    /\ poll' = [poll EXCEPT !.pc = "idle"]
    /\ UNCHANGED <<serviceFrame, processed_files, uploads, outputs, explainer>>

\* The number of slides of the deck stored under a name
SlidesOf(file_name) ==
    uploads[CHOOSE p \in DOMAIN uploads : uploads[p].name = file_name].slides

\* What parsing, topic and coordinator of process_file can end in for a deck
\* of one slide: an exception of the topic resolver, an exception of the
\* coordinator, or the result mapping with the explanation of the slide.
ProcessOutcomes ==
    { [kind |-> "topic_raise", value |-> EmptyDict],
      [kind |-> "slides_raise", value |-> EmptyDict],
      [kind |-> "return", value |-> EnumerateResults(<<Completion(2)>>)] }

\* The text of a deck is the texts of its slides, each followed by a blank:
\* a deck without slides has the presentation text '', for which
\* generate_presentation_main_topic raises ValueError.
ProcessOutcomesOf(slides, outcomes) ==
    IF slides = 0 THEN { [kind |-> "topic_raise", value |-> EmptyDict] }
    ELSE outcomes

\* get_files_to_process without its test: every name of the folder
NotProcessedOrProcessed(file_name) == TRUE

\* `if file_name not in processed_files`
NotProcessed(file_name) == file_name \notin processed_files

\* The orders in which os.listdir can hand back a set of names
Listings(names) ==
    { order \in [1..Cardinality(names) -> names] :
        \A i, j \in DOMAIN order : order[i] = order[j] => i = j }

\* get_files_to_process, lines 201-218: the names of the uploads folder that
\* are not keys of the processed dictionary
ExplainerScan ==
    /\ entry = "service"
    /\ explainer.pc = "scan"
    /\ \E listing \in Listings(UploadNames) :
          explainer' = ExplainerAt("loop", SelectSeq(listing, NotProcessed),
                                   EmptyDict)
    /\ UNCHANGED <<serviceFrame, processed_files, uploads, outputs, poll,
                   response>>

\* `for file_path in files_to_process:` is through its list; `while True`
ExplainerLoopEnd ==
    /\ entry = "service"
    /\ explainer.pc = "loop"
    /\ explainer.files_to_process = <<>>
    /\ explainer' = ExplainerAt("scan", <<>>, EmptyDict)
    /\ UNCHANGED <<serviceFrame, processed_files, uploads, outputs, poll,
                   response>>

\* process_file, lines 227-242, up to `with open(output_path, "w") as file`
\* of save_explanation_json: the file is marked as processed once the topic
\* is there, and the output file is created, empty, once the coordinator
\* returned. run_explainer has no try: an exception ends the explainer.
ProcessFile(outcomes) ==
    /\ entry = "service"
    /\ explainer.pc = "loop"
    /\ explainer.files_to_process # <<>>
    /\ LET file_name == Head(explainer.files_to_process)
           begun == [explainer EXCEPT
                        !.started = Append(explainer.started, file_name)]
       IN
       \E outcome \in ProcessOutcomesOf(SlidesOf(file_name), outcomes) :
          CASE outcome.kind = "topic_raise" ->
                 /\ explainer' = [begun EXCEPT !.pc = "crashed"]
                 /\ UNCHANGED <<processed_files, outputs>>
            [] outcome.kind = "slides_raise" ->
                 /\ explainer' = [begun EXCEPT !.pc = "crashed"]
                 /\ processed_files' = processed_files \cup {file_name}
                 /\ UNCHANGED outputs
            [] OTHER ->
                 /\ explainer' =
                       [begun EXCEPT
                           !.pc = "dump", !.result = outcome.value,
                           !.written = Append(explainer.written,
                                              OutputFilename(file_name))]
                 /\ processed_files' = processed_files \cup {file_name}
                 /\ outputs' = PutOutput(OutputFilename(file_name),
                                         OpenedFile)
    /\ UNCHANGED <<serviceFrame, uploads, poll, response>>

ExplainerProcessFile == ProcessFile(ProcessOutcomes)

\* What process_file can end in when every remote call succeeds
RemoteOkOutcomes == { o \in ProcessOutcomes : o.kind = "return" }

\* process_file with remote calls that succeed
ExplainerProcessFileRemoteOk == ProcessFile(RemoteOkOutcomes)

\* save_explanation_json, lines 264-265: json.dump and the end of the with
\* block; then the sleep of run_explainer and the next file of the list.
ExplainerDump ==
    /\ entry = "service"
    /\ explainer.pc = "dump"
    /\ outputs' = PutOutput(OutputFilename(Head(explainer.files_to_process)),
                            WrittenFile(JsonDump(explainer.result)))
    /\ explainer' = ExplainerAt("loop", Tail(explainer.files_to_process),
                                EmptyDict)
    /\ UNCHANGED <<serviceFrame, processed_files, uploads, poll, response>>

\* ------------------------------------------------------------ specification
Logs ==
    /\ remote_calls = <<>>
    /\ sleeps = <<>>
    /\ in_flight = {}
    /\ overlapped = FALSE
    /\ writes = <<>>

\* generate_presentation_main_topic(presentation_text, max_retry)
InitTopic ==
    /\ entry = "topic"
    /\ Logs
    /\ presentation_text \in SlideTexts
    /\ topic_max_retry \in -1..MaxRetry
    /\ topic_pc = "check"
    /\ retry_count = 0
    /\ wait_time = 0
    /\ topic_outcome = TopicRunning
    /\ CoordIdle
    /\ RunIdle
    /\ ParseIdle
    /\ WebIdle

\* generate_explanation_for_presentation(parsed_presentation,
\*                                       presentation_topic, max_retry)
InitPresentation ==
    /\ entry = "presentation"
    /\ Logs
    /\ TopicIdle
    /\ parsed_presentation \in InputDicts
    /\ presentation_topic = GivenTopic
    /\ max_retry \in {-1, 0, 1, MaxRetry}
    /\ coord_pc = "schedule"
    /\ tasks = <<>>
    /\ coord_outcome = [kind |-> "running", value |-> EmptyDict, exc |-> "none"]
    /\ RunIdle
    /\ ParseIdle
    /\ WebIdle

\* process_file(file_path) and cli.main(cli_args), after the deck was parsed
InitRunner ==
    /\ entry \in {"process_file", "cli"}
    /\ Logs
    /\ TopicIdle
    /\ CoordIdle
    /\ parsing_results_dict \in ParsedDicts
    /\ cli_topic \in IF entry = "cli" THEN {NoTopic, GivenTopic} ELSE {NoTopic}
    /\ run_pc = "start"
    /\ expanded_slide_explanations = EmptyDict
    /\ processed_files = {}
    /\ output_json = AbsentFile
    /\ ParseIdle
    /\ WebIdle

\* slide_expander = GptSlideExpander(), then the instance-method coordinator
\* of the draft on a first presentation
InitTwice ==
    /\ entry = "twice"
    /\ Logs
    /\ TopicIdle
    /\ parsed_presentation \in TwiceDicts
    /\ presentation_topic = GivenTopic
    /\ max_retry = RunnerMaxRetry
    /\ coord_pc = "schedule"
    /\ tasks = <<>>
    /\ coord_outcome = [kind |-> "running", value |-> EmptyDict, exc |-> "none"]
    /\ parsing_results_dict = EmptyDict
    /\ cli_topic = NoTopic
    /\ run_pc = "run1"
    /\ expanded_slide_explanations = EmptyDict
    /\ processed_files = {}
    /\ output_json = AbsentFile
    /\ ParseIdle
    /\ WebIdle

\* PPTXParser(path).extract_text_from_presentation()
InitParser ==
    /\ entry = "parse"
    /\ Logs
    /\ TopicIdle
    /\ CoordIdle
    /\ presentation \in Decks
    /\ slide_number = 0
    /\ parsing_results_dict = EmptyDict
    /\ cli_topic = NoTopic
    /\ run_pc = "parsing"
    /\ expanded_slide_explanations = EmptyDict
    /\ processed_files = {}
    /\ output_json = AbsentFile
    /\ WebIdle

\* The web service and the explainer loop are started on empty folders
InitService ==
    /\ entry = "service"
    /\ Logs
    /\ TopicIdle
    /\ CoordIdle
    /\ RunIdle
    /\ ParseIdle
    /\ uploads = <<>>
    /\ outputs = <<>>
    /\ explainer = ExplainerStarts("scan")
    /\ poll = NoPoll
    /\ response = NoResponse

Init ==
    \/ InitTopic
    \/ InitPresentation
    \/ InitRunner
    \/ InitTwice
    \/ InitParser
    \/ InitService

Next ==
    \/ TopicCheck
    \/ TopicAttempt
    \/ TopicExhausted
    \/ ScheduleTasks
    \/ \E i \in DOMAIN tasks : TaskRequest(i)
    \/ \E i \in DOMAIN tasks : TaskAttempt(i)
    \/ \E i \in DOMAIN tasks : TaskExhausted(i)
    \/ CoordinatorResume
    \/ RunnerStart
    \/ RunnerAfterTopic
    \/ RunnerAfterSlides
    \/ RunnerDump
    \/ SecondRun
    \/ ParseSlide
    \/ ParseDone
    \/ Upload
    \/ StatusLookup
    \/ StatusLoad
    \/ ExplainerScan
    \/ ExplainerLoopEnd
    \/ ExplainerProcessFile
    \/ ExplainerDump

Spec == Init /\ [][Next]_vars

\* The steps of generate_explanation_for_presentation and of its tasks
CoordinatorSteps ==
    \/ ScheduleTasks
    \/ \E i \in DOMAIN tasks : TaskRequest(i)
    \/ \E i \in DOMAIN tasks : TaskAttempt(i)
    \/ \E i \in DOMAIN tasks : TaskExhausted(i)
    \/ CoordinatorResume

\* generate_explanation_for_presentation(parsed_slides_dictionary, ...)
InitParsedPresentation ==
    InitPresentation /\ parsed_presentation \in ParsedDicts

\* generate_explanation_for_presentation under asyncio.run: the event loop
\* runs what is ready, and every remote call comes back; the mappings are
\* those of a parsed deck
FairCoordinatorSpec ==
    InitParsedPresentation /\ [][CoordinatorSteps]_vars
        /\ WF_vars(CoordinatorSteps)

\* The steps of the explainer process, with remote calls that succeed
ExplainerLoop ==
    \/ ExplainerScan
    \/ ExplainerLoopEnd
    \/ ExplainerProcessFileRemoteOk
    \/ ExplainerDump

NextService ==
    \/ Upload
    \/ StatusLookup
    \/ StatusLoad
    \/ ExplainerLoop

\* The web layer and the explainer, where the explainer process of __main__
\* keeps running as long as it has a step to take and its remote calls
\* succeed
FairServiceSpec ==
    InitService /\ [][NextService]_vars /\ WF_vars(ExplainerLoop)

\* ------------------------------------------------------------------ claims
CoordinatorCalled == entry = "presentation" /\ max_retry >= 1

CoordinatorDone == coord_pc = "done"

InputKeysContiguous ==
    Keys(parsed_presentation) = 1..Len(parsed_presentation)

\* No slide text of the input is one of the whitespace-only texts longer
\* than one character (those are the subject of C4).
InputTextsPlain ==
    \A p \in DOMAIN parsed_presentation :
        \/ parsed_presentation[p].text \in {<<>>, <<" ">>}
        \/ ~IsWhitespaceOnly(parsed_presentation[p].text)

AllCallsOk(unit) == \A c \in CallsOf(unit) : remote_calls[c].ok
AllCallsFailed(unit) ==
    /\ CallsOf(unit) # {}
    /\ \A c \in CallsOf(unit) : remote_calls[c].exc = TransientError

LastCallOf(unit) == CHOOSE c \in CallsOf(unit) : \A d \in CallsOf(unit) : d <= c

\* The value stored under key k of a result mapping
ValueAt(dict, k) == dict[Lookup(dict, k)].value

\* The explanation the unit created for item p owes when nothing fails: the
\* completion of its own request, or the 'no text' sentinel.
IsOwnExplanation(v, p) ==
    IF CallsOf(p) = {} THEN v = NoTextSentinel
    ELSE /\ remote_calls[LastCallOf(p)].ok
         /\ remote_calls[LastCallOf(p)].text = parsed_presentation[p].text
         /\ remote_calls[LastCallOf(p)].topic = presentation_topic
         /\ v = Completion(remote_calls[LastCallOf(p)].id)

\* C1 (Completeness): for an input mapping with keys 1..n, n >= 0, the
\* coordinator returns a mapping whose key set is exactly 1..n, whatever the
\* outcomes of the slide units.
C1_Completeness ==
    (/\ CoordinatorCalled /\ InputKeysContiguous /\ InputTextsPlain
     /\ CoordinatorDone)
        => /\ coord_outcome.kind = "return"
           /\ Keys(coord_outcome.value) = 1..Len(parsed_presentation)

\* C2 (Isolation): when the remote calls of the slides in a set F all fail
\* and those of the other slides all succeed, the coordinator returns; every
\* slide outside F holds its successful explanation and every slide k in F
\* holds an error sentinel that carries k.
C2_Isolation ==
    (/\ CoordinatorCalled /\ InputKeysContiguous /\ InputTextsPlain
     /\ CoordinatorDone
     /\ \A p \in DOMAIN tasks : AllCallsFailed(p) \/ AllCallsOk(p))
        => /\ coord_outcome.kind = "return"
           /\ \A p \in DOMAIN tasks :
                LET v == ValueAt(coord_outcome.value, p)
                IN  IF AllCallsFailed(p)
                    THEN v.kind = "error" /\ v.index = p
                    ELSE IsOwnExplanation(v, p)

\* The calls of generate_explanation_for_slide that task p has made
Invoked(p) == tasks[p].tries >= 1

C4_WhitespaceShortCircuit ==
    \A p \in DOMAIN tasks :
        (Invoked(p) /\ IsWhitespaceOnly(tasks[p].slide_text))
            => /\ CallsOf(p) = {}
               /\ tasks[p].outcome = Returned(NoTextSentinel)

\* C5 (Retry bound): with max_retry = N >= 1 and remote calls that all fail,
\* a retry loop (the topic resolver's, a slide unit's) makes exactly N remote
\* calls and then ends in its retries-exhausted error.
C5_RetryBound ==
    /\ (topic_pc = "done" /\ topic_max_retry >= 1 /\ AllCallsFailed(0))
          => /\ Cardinality(CallsOf(0)) = topic_max_retry
             /\ topic_outcome = TopicRaised("RuntimeError")
    /\ \A p \in DOMAIN tasks :
          (TaskDone(tasks[p]) /\ max_retry >= 1 /\ AllCallsFailed(p))
             => /\ Cardinality(CallsOf(p)) = max_retry
                /\ tasks[p].retry_exc = "Exception"

\* w0, w0 + 1, ..., w0 + (n - 1)
LinearWaits(n) == [k \in 1..n |-> InitialWaitTime + (k - 1) * WaitTimeStep]

\* C6 (Backoff schedule): when every attempt of the topic resolver fails,
\* the waits it performs are exactly w0, w0+1, ..., w0+(N-2): N-1 waits, none
\* after the last attempt.
C6_BackoffSchedule ==
    (entry = "topic" /\ topic_pc = "done" /\ topic_max_retry >= 1
        /\ AllCallsFailed(0))
        => sleeps = LinearWaits(topic_max_retry - 1)

\* C7 (Non-transient fast-fail): with an empty presentation text the topic
\* resolver raises ValueError for every max_retry, without a remote call and
\* without a wait, and never enters its loop.
C7_EmptyTextFastFail ==
    (topic_pc # "idle" /\ presentation_text = <<>>)
        => /\ topic_pc \in {"check", "done"}
           /\ remote_calls = <<>>
           /\ sleeps = <<>>
           /\ topic_pc = "done" => topic_outcome = TopicRaised("ValueError")

C7_Witness ==
    /\ entry = "topic"
    /\ presentation_text = <<>>
    /\ topic_max_retry = MaxRetry
    /\ topic_outcome = TopicRaised("ValueError")
    /\ remote_calls = <<>>

\* C8 (Topic failure is fatal): once the topic resolver of a run has ended
\* in an error, the runner is on its way out with that error: the
\* coordinator is never called, no slide request is issued, and neither a
\* result mapping nor a JSON file is produced.
C8_TopicFailureFatal ==
    (entry \in {"process_file", "cli"} /\ topic_outcome.kind = "raise")
        => /\ run_pc \in {"topic", "error"}
           /\ coord_pc = "idle"
           /\ tasks = <<>>
           /\ \A c \in DOMAIN remote_calls : remote_calls[c].unit = 0
           /\ ~output_json.exists
           /\ expanded_slide_explanations = EmptyDict
           /\ coord_outcome.kind = "running"

C8_Witness ==
    /\ entry = "process_file"
    /\ Len(parsing_results_dict) = MaxSlides
    /\ topic_outcome.kind = "raise"
    /\ AllCallsFailed(0)
    /\ run_pc = "error"

C10_KeyDomainPreserved ==
    (/\ CoordinatorCalled /\ InputTextsPlain /\ CoordinatorDone
     /\ coord_outcome.kind = "return")
        => /\ Keys(coord_outcome.value) = Keys(parsed_presentation)
           /\ \A p \in DOMAIN parsed_presentation :
                IsOwnExplanation(
                    ValueAt(coord_outcome.value, parsed_presentation[p].key),
                    p)

\* C11 (No partial result): the coordinator has finished only in states where
\* every slide of the input has a task and every task is terminal (returned
\* or raised, never pending or attempting); a mapping it hands back has an
\* entry, holding that task's result, for every task.
C11_NoPartialResult ==
    CoordinatorDone =>
        /\ Len(tasks) = Len(parsed_presentation)
        /\ \A i \in DOMAIN tasks :
              /\ tasks[i].pc = "done"
              /\ tasks[i].outcome.kind \in {"return", "raise"}
        /\ in_flight = {}
        /\ coord_outcome.kind \in {"return", "raise"}
        /\ coord_outcome.kind = "return" =>
              LET result == IF InstanceVariant
                            THEN expanded_slide_explanations
                            ELSE coord_outcome.value
              IN  \A i \in DOMAIN tasks :
                    /\ i \in Keys(result)
                    /\ ValueAt(result, i) = tasks[i].outcome.value

\* Three slides, the coordinator returned: the units ran one call each
C11_Witness ==
    /\ CoordinatorCalled /\ CoordinatorDone
    /\ Len(tasks) = MaxSlides
    /\ coord_outcome.kind = "return"
    /\ \A i \in DOMAIN tasks : Cardinality(CallsOf(i)) = 1

\* C18 (Single writer per key): within one coordinator run no result key is
\* assigned twice, every assignment stores under key k the outcome of the
\* k-th task and of no other, and a coordinator that returned has assigned
\* one key per task.
C18_SingleWriterPerKey ==
    /\ \A a, b \in DOMAIN writes : writes[a].key = writes[b].key => a = b
    /\ \A a \in DOMAIN writes :
          /\ writes[a].key \in DOMAIN tasks
          /\ writes[a].value = tasks[writes[a].key].outcome.value
    /\ (CoordinatorDone /\ coord_outcome.kind = "return")
          => { writes[a].key : a \in DOMAIN writes } = DOMAIN tasks
    /\ coord_outcome.kind # "return" => writes = <<>>

\* Three keys assigned, one per task, two of them with completions
C18_Witness ==
    /\ CoordinatorDone
    /\ Len(writes) = MaxSlides
    /\ writes[1] = [key |-> 1, value |-> Completion(1)]
    /\ writes[2] = [key |-> 2, value |-> NoTextSentinel]
    /\ writes[3] = [key |-> 3, value |-> Completion(2)]

\* The tasks that issued at least one remote request
UnitsWithCalls == { p \in DOMAIN tasks : CallsOf(p) # {} }

AtMostOneRequestInFlight == Cardinality(in_flight) <= 1 /\ ~overlapped

\* The calls of a unit in the order they were made
FirstCallOf(unit) == CHOOSE c \in CallsOf(unit) : \A d \in CallsOf(unit) : c <= d

\* No call of the unit failed with anything but a transient remote error
OnlyTransientFailures(unit) ==
    \A c \in CallsOf(unit) : remote_calls[c].exc \in {"none", TransientError}

\* A finished retry loop that made calls c1 < ... < ck obeys the state
\* machine when either ck succeeded, every earlier call failed, k <= N and
\* the loop returned, or all k = N calls failed and the loop raised.
ObeysRetryStateMachine(unit, N, returned) ==
    IF returned
    THEN /\ Cardinality(CallsOf(unit)) <= N
         /\ \A c \in CallsOf(unit) : remote_calls[c].ok <=> c = LastCallOf(unit)
    ELSE /\ Cardinality(CallsOf(unit)) = N
         /\ \A c \in CallsOf(unit) : ~remote_calls[c].ok

\* C15 (Retry state machine): a retry loop (the topic resolver's, a slide
\* unit's) that made remote calls ends Succeeded at the first call that
\* succeeds, after at most max_retry calls, and ends Failed only after
\* exactly max_retry failed calls; a finished loop issues no further call.
C15_RetryStateMachine ==
    /\ (topic_pc = "done" /\ topic_max_retry >= 1 /\ CallsOf(0) # {}
            /\ OnlyTransientFailures(0))
          => ObeysRetryStateMachine(0, topic_max_retry,
                                    topic_outcome.kind = "return")
    /\ \A p \in DOMAIN tasks :
          (TaskDone(tasks[p]) /\ max_retry >= 1 /\ CallsOf(p) # {}
              /\ OnlyTransientFailures(p))
             => /\ ObeysRetryStateMachine(p, max_retry,
                                          tasks[p].retry_exc = "none")
                /\ Cardinality(CallsOf(p)) = tasks[p].tries

C17_NonTransientNotRetried ==
    /\ (topic_pc = "done" /\ CallsOf(0) # {}
            /\ remote_calls[FirstCallOf(0)].exc = "KeyError")
          => /\ Cardinality(CallsOf(0)) = 1
             /\ sleeps = <<>>
             /\ topic_outcome = TopicRaised("KeyError")
    /\ \A p \in DOMAIN tasks :
          (TaskDone(tasks[p]) /\ CallsOf(p) # {}
              /\ remote_calls[FirstCallOf(p)].exc = "KeyError")
             => /\ Cardinality(CallsOf(p)) = 1
                /\ entry = "presentation" => sleeps = <<>>
                /\ tasks[p].retry_exc = "KeyError"

\* The part of C17 the code keeps: one call, no wait, an error
NonTransientEndsLoop ==
    /\ (topic_pc = "done" /\ CallsOf(0) # {}
            /\ remote_calls[FirstCallOf(0)].exc = "KeyError")
          => /\ Cardinality(CallsOf(0)) = 1
             /\ sleeps = <<>>
             /\ topic_outcome.kind = "raise"
    /\ \A p \in DOMAIN tasks :
          (TaskDone(tasks[p]) /\ CallsOf(p) # {}
              /\ remote_calls[FirstCallOf(p)].exc = "KeyError")
             => /\ Cardinality(CallsOf(p)) = 1
                /\ tasks[p].retry_exc # "none"

\* The coordinator's second call on the same object has returned
SecondRunReturned ==
    /\ entry = "twice" /\ run_pc = "run2"
    /\ CoordinatorDone /\ coord_outcome.kind = "return"

\* C19 (No state across invocations): after the coordinator ran on n1 slides
\* and then on n2 slides on the same object, the mapping the object exposes
\* has exactly the keys 1..n2 and holds under each key the outcome of the
\* second run's unit, also when n2 < n1.
C19_NoStateAcrossInvocations ==
    SecondRunReturned
        => /\ Keys(expanded_slide_explanations) = 1..Len(parsed_presentation)
           /\ \A k \in Keys(expanded_slide_explanations) :
                 /\ k \in DOMAIN tasks
                 /\ ValueAt(expanded_slide_explanations, k)
                        = tasks[k].outcome.value

\* The text with every copyright sign taken out
WithoutCopyright(text) == SelectSeq(text, LAMBDA c : c # CopyrightSign)

\* C13 (Parser): parsing a deck of n slides gives a mapping with exactly the
\* keys 1..n in deck order; key i holds the text of the i-th slide with the
\* copyright sign removed, the empty string for a slide without text.
\* extract_text_from_slide alone gives the raw text, the sign kept, and the
\* empty string for a slide without text.
C13_ParsedPresentation ==
    (entry = "parse" /\ run_pc = "parsed")
        => /\ Len(parsing_results_dict) = Len(presentation)
           /\ \A i \in DOMAIN presentation :
                 /\ parsing_results_dict[i].key = i
                 /\ parsing_results_dict[i].text =
                        WithoutCopyright(extract_text_from_slide(presentation[i]))
           /\ extract_text_from_slide(Slide(<<>>)) = <<>>
           /\ extract_text_from_slide(Slide(<< Picture >>)) = <<>>
           /\ extract_text_from_slide(OneRunSlide(<<"T", CopyrightSign>>))
                 = <<"T", CopyrightSign, " ">>

\* What the parser keeps of C13: keys 1..n in deck order, '' for a slide
\* without text, and texts from which nothing but the two-character literal
\* of the replace call is taken out
ParsedKeysInDeckOrder ==
    (entry = "parse" /\ run_pc = "parsed")
        => /\ Len(parsing_results_dict) = Len(presentation)
           /\ \A i \in DOMAIN presentation :
                 /\ parsing_results_dict[i].key = i
                 /\ extract_text_from_slide(presentation[i]) = <<>>
                        => parsing_results_dict[i].text = <<>>
                 /\ extract_text_from_slide(presentation[i])
                        = <<"T", CopyrightSign, " ">>
                        => parsing_results_dict[i].text
                             = <<"T", CopyrightSign, " ">>

\* A step of the status handler that sends its response
StatusAnswers == (StatusLookup \/ StatusLoad) /\ poll'.pc = "idle"

\* The uploads that belong to an identifier: those it was assigned to
UploadsOf(uid) == { name \in UploadNames : UidOf(name) = uid }

\* The output JSON of the upload that belongs to the identifier
OutputOf(uid) ==
    OutputFile(OutputFilename(CHOOSE name \in UploadsOf(uid) : TRUE))

\* The response the status contract asks for, given the folders as they are
\* when the response is sent
ContractResponse(uid, resp) ==
    IF UploadsOf(uid) = {} THEN resp.status = "not found"
    ELSE IF ~OutputOf(uid).exists
         THEN resp.status = "pending" /\ resp.explanation = "null"
         ELSE /\ resp.status = "done"
              /\ JsonLoad(OutputOf(uid)).kind = "return"
              /\ resp.explanation = JsonLoad(OutputOf(uid)).value

\* C12 (Status polling): the response to a status request for an identifier
\* the service can hand out is 'not found' when no upload belongs to it,
\* 'pending' with a null explanation when the upload is there and its output
\* JSON is not, and 'done' with the parsed content of the output JSON when
\* that file exists.
C12_StatusPolling ==
    [][(StatusAnswers /\ poll'.uid \in Uids)
          => ContractResponse(poll'.uid, response')]_vars

\* The same, for responses sent while no output file is half-written
StatusPollingOutsideSave ==
    [][(StatusAnswers /\ poll'.uid \in Uids /\ explainer.pc # "dump")
          => ContractResponse(poll'.uid, response')]_vars

\* C20 (Atomic output artifact): a status poll that finds the output JSON
\* finds it complete: no poll sees a file that exists but is empty or cut
\* off, no poll fails on it, and a 'done' response carries the whole saved
\* mapping.
C20_AtomicOutputArtifact ==
    entry = "service" =>
        /\ poll.pc = "load"
              => OutputFile(OutputFilename(poll.file)).complete
        /\ response.code # 500
        /\ response.status = "done"
              => \E o \in ProcessOutcomes :
                    /\ o.kind = "return"
                    /\ response.explanation = JsonDump(o.value)

\* C23 (max_retry <= 0): with max_retry <= 0 a retry loop issues no remote
\* call and performs no wait, and ends in its retries-exhausted error:
\* RuntimeError from the topic resolver for a non-empty text, Exception from
\* the loop of a slide unit, for every slide text; the unit yields no
\* explanation, not even the 'no text' sentinel of a blank slide.
C23_NoAttemptWithoutRetries ==
    /\ (entry = "topic" /\ topic_max_retry <= 0 /\ presentation_text # <<>>)
          => /\ remote_calls = <<>>
             /\ sleeps = <<>>
             /\ topic_pc = "done" => topic_outcome = TopicRaised("RuntimeError")
    /\ (entry = "presentation" /\ max_retry <= 0)
          => /\ remote_calls = <<>>
             /\ sleeps = <<>>
             /\ in_flight = {}
             /\ \A p \in DOMAIN tasks :
                   /\ tasks[p].tries = 0
                   /\ TaskDone(tasks[p])
                         => /\ tasks[p].retry_exc = "Exception"
                            /\ tasks[p].outcome.kind # "return"
                               \/ tasks[p].outcome.value.kind = "error"

\* max_retry = -1 on a blank and a non-blank slide: both loops gave up
C23_Witness ==
    /\ entry = "presentation" /\ max_retry = -1
    /\ Len(tasks) = 2
    /\ tasks[1].slide_text = <<>> /\ tasks[1].retry_exc = "Exception"
    /\ tasks[2].slide_text = <<"I">> /\ tasks[2].retry_exc = "Exception"
    /\ remote_calls = <<>>

\* Names that occur more than once in a log
Repeated(log) ==
    { log[i] : i \in { i \in DOMAIN log :
                          \E j \in DOMAIN log : j # i /\ log[j] = log[i] } }

\* C21 (Exactly-once processing): over a run of the explainer loop
\* process_file is started at most once for each name of the uploads folder
\* and each output JSON is opened for writing at most once; a name recorded
\* as processed is not handed back by get_files_to_process, also when files
\* are uploaded between scans.
C21_ExactlyOnceProcessing ==
    entry = "service" =>
        /\ Repeated(explainer.started) = {}
        /\ Repeated(explainer.written) = {}
        /\ \A i \in DOMAIN explainer.started :
              explainer.started[i] \in UploadNames
        /\ \A name \in processed_files :
              \E i \in DOMAIN explainer.started : explainer.started[i] = name
        /\ \A i \in DOMAIN explainer.files_to_process :
              (i > 1 \/ explainer.pc = "loop")
                 => explainer.files_to_process[i] \notin processed_files

\* Two files were processed and saved in two rounds of the loop: the second
\* scan handed back the new file only
C21_Witness ==
    /\ entry = "service"
    /\ Len(explainer.written) = 2
    /\ Len(explainer.started) = 2
    /\ explainer.pc = "loop"
    /\ explainer.files_to_process = <<>>
    /\ \A p \in DOMAIN outputs : outputs[p].file.complete
    /\ Cardinality(processed_files) = 2

\* C24 (Identifier matching): a status query that is not the uid assigned
\* to a stored upload is answered 'not found', and a response to an assigned
\* uid describes the upload that uid was assigned to.
C24_IdentifierMatching ==
    [][StatusAnswers
         => IF UploadsOf(poll'.uid) = {}
            THEN response'.status = "not found"
            ELSE response'.code = 200
                    => \E name \in UploadsOf(poll'.uid) :
                          response'.filename = SplitExt(name)[1]]_vars

\* Queries that are the uid of a stored upload are answered with that
\* upload, as long as no other stored name holds the uid
AssignedUidFindsOwnUpload ==
    [][(StatusAnswers /\ poll'.uid \in Uids /\ response'.code = 200)
          => \E name \in UploadsOf(poll'.uid) :
                response'.filename = SplitExt(name)[1]]_vars

\* The status of an identifier, as the folders stand
Pending(uid) == UploadsOf(uid) # {} /\ ~OutputOf(uid).exists
Done(uid) == UploadsOf(uid) # {} /\ OutputOf(uid).complete

\* The last status response was for the identifier
Polled(uid) == poll.pc = "idle" /\ poll.uid = uid /\ response.status # "none"

\* Once a poll for a uid has returned 'done', every later poll for it does
DoneStaysDone ==
    \A uid \in Uids :
        [](Polled(uid) /\ response.status = "done"
              => [](Polled(uid) => response.status = "done"))

\* Every pending upload gets its output, or the explainer process has ended
ProgressWhileExplainerRuns ==
    \A uid \in Uids :
        Pending(uid) ~> (Done(uid) \/ explainer.pc = "crashed")

\* C25 (Progress and monotonicity): with a fair explainer loop and remote
\* calls that succeed, every upload whose status is 'pending' eventually has
\* status 'done', and after a 'done' response for a uid every later response
\* for that uid is 'done'.
C25_ProgressAndMonotonicity ==
    /\ \A uid \in Uids : Pending(uid) ~> Done(uid)
    /\ DoneStaysDone

\* Every unit has ended, with a value or with an error
EveryUnitEnded ==
    /\ Len(tasks) = Len(parsed_presentation)
    /\ \A i \in DOMAIN tasks :
          /\ tasks[i].pc = "done"
          /\ tasks[i].outcome.kind \in {"return", "raise"}

\* C22 (Termination): for every slide mapping and max_retry >= 1, with remote
\* calls that come back with success or with a failure, every slide unit
\* ends, with a value or an error, and the coordinator finishes; no unit
\* makes more than max_retry attempts.
C22_Termination ==
    /\ (entry = "presentation" /\ max_retry >= 1)
           ~> (coord_pc = "done" /\ coord_outcome.kind \in {"return", "raise"}
                                /\ EveryUnitEnded)
    /\ [](max_retry >= 1 => \A i \in DOMAIN tasks : tasks[i].tries <= max_retry)
    /\ [](coord_pc = "done" => [](coord_pc = "done"))

\* The coordinator finished a run of two units with max_retry = 3 in which a
\* remote call came back with a transient failure and another with success
C22_Witness ==
    /\ entry = "presentation"
    /\ max_retry = MaxRetry
    /\ coord_pc = "done"
    /\ Len(tasks) = 2
    /\ EveryUnitEnded
    /\ \E p, q \in DOMAIN remote_calls :
          /\ ~remote_calls[p].ok /\ remote_calls[p].exc = TransientError
          /\ remote_calls[q].ok

====
